---- MODULE Spec2Model ----
(***************************************************************************)
(* Model of converter_heic_para_jpeg.py: the enumeration of the HEIC/HEIF  *)
(* files of a source tree, the submission of one conversion task per file  *)
(* to a thread pool, the tasks themselves, the collection of the results   *)
(* and the command-line wrapper.                                           *)
(*                                                                         *)
(* A file name is a sequence of one-character strings; a relative path is  *)
(* a sequence of names (its components).                                   *)
(***************************************************************************)
EXTENDS Integers, Sequences, FiniteSets, TLC

VARIABLES
    entrada,        \* who calls converter_heic: "main" (command line) or "api"
    args,           \* the arguments of the call
    origem,         \* the source: [isdir, entradas]
    destRaiz,       \* the destination root: "ausente", "dir" or "ficheiro"
    destDirs,       \* directories under the destination root (relative paths)
    destFicheiros,  \* files under the destination root: relative path -> content
    pc,             \* position of the calling thread
    formato,        \* local variable formato (reassigned at line 103)
    threads,        \* local variable threads (reassigned at line 133)
    ficheiros,      \* the materialised list of line 125
    idx,            \* position of the loop of line 143 in ficheiros
    tarefas,        \* the futures of line 114, in submission order
    convertidos,    \* counter of line 115
    erros,          \* counter of line 116
    resultado,      \* how converter_heic ended
    codigo_saida,   \* exit status of the process started by main (-1: running)
    abertos,        \* history: relative paths handed to Image.open
    escritos,       \* history: [saida, rel] for every output opened for writing
    decisoes,       \* history: per file of the loop, [rel, existia, submetida]
    execucao,       \* number of the current call of converter_heic
    anterior        \* the (convertidos, erros) pair the previous call returned

vars == <<entrada, args, origem, destRaiz, destDirs, destFicheiros, pc, formato,
          threads, ficheiros, idx, tarefas, convertidos, erros, resultado,
          codigo_saida, abertos, escritos, decisoes, execucao, anterior>>

-----------------------------------------------------------------------------
(* Bounds of the model *)

\* at most this many entries in the source tree
MaxEntradas == 2
\* at most this many successive calls of converter_heic
MaxExecucoes == 2

-----------------------------------------------------------------------------
(* Strings *)

\* str.lower() on one character
LowerChar(c) ==
    CASE c = "H" -> "h" [] c = "E" -> "e" [] c = "I" -> "i" [] c = "C" -> "c"
      [] c = "F" -> "f" [] c = "P" -> "p" [] c = "N" -> "n" [] c = "G" -> "g"
      [] c = "J" -> "j" [] OTHER -> c

\* str.lower()
Lower(s) == [i \in 1..Len(s) |-> LowerChar(s[i])]

\* the positions of the extension separator in a name
Pontos(n) == {i \in 1..Len(n) : n[i] = "."}

\* index of the last dot of n that follows a non-dot character, 0 if none:
\* os.path.splitext ignores leading dots
DotIndex(n) ==
    IF Pontos(n) = {} THEN 0
    ELSE LET d == CHOOSE i \in Pontos(n) : \A j \in Pontos(n) : j <= i
         IN  IF \E j \in 1..(d - 1) : n[j] # "." THEN d ELSE 0

\* os.path.splitext(name) = <<root, ext>>
Splitext(n) ==
    IF DotIndex(n) = 0 THEN <<n, <<>>>>
    ELSE <<SubSeq(n, 1, DotIndex(n) - 1), SubSeq(n, DotIndex(n), Len(n))>>

Front(s) == SubSeq(s, 1, Len(s) - 1)
Last(s) == s[Len(s)]

JPEG == <<"j", "p", "e", "g">>
PNG == <<"p", "n", "g">>
DOT_HEIC == <<".", "h", "e", "i", "c">>
DOT_HEIF == <<".", "h", "e", "i", "f">>
DOT_JPG == <<".", "j", "p", "g">>
DOT_PNG == <<".", "p", "n", "g">>

\* line 20
exts == {DOT_HEIC, DOT_HEIF}

\* the test without lower(): .HEIC and .HEIF are missed
EhHeicSensivel(f) == Splitext(f)[2] \in exts

\* lines 25 and 31: the test the enumerator applies to a file name
EhHeic(f) == Lower(Splitext(f)[2]) \in exts

\* line 120
ExtOut(fmt) == IF fmt = JPEG THEN DOT_JPG ELSE DOT_PNG

\* lines 119-121: the output path of rel_path, relative to the destination root
\* (os.path.splitext splits the last component of a path)
DestinoRel(rel, fmt) ==
    Front(rel) \o <<Splitext(Last(rel))[1] \o ExtOut(fmt)>>

-----------------------------------------------------------------------------
(* The file system *)

Prefixos(p) == {SubSeq(p, 1, k) : k \in 1..Len(p)}

\* os.path.exists of a path under the destination root
Existe(files, dirs, p) == p \in DOMAIN files \/ p \in dirs

\* os.makedirs(dir, exist_ok=True) raises when a component of dir is a file
MakedirsFalha(files, dir) == \E p \in Prefixos(dir) : p \in DOMAIN files

\* destino_para without its call of os.makedirs
MakedirsNada(files, dirs, dir) == dirs

\* the directories after os.makedirs(dir, exist_ok=True): every component up
\* to the first one that is a file
Makedirs(files, dirs, dir) ==
    dirs \cup {p \in Prefixos(dir) : \A q \in Prefixos(p) : q \notin DOMAIN files}

\* the names os.listdir gives for the source root: files and directories
NomesDaRaiz(entradas) == {e.rel[1] : e \in entradas}

\* lines 22-33: the relative paths _listar_ficheiros_heic yields.  os.walk
\* hands over the non-directory entries of every level; os.listdir hands over
\* every entry of the root, directories included.
Listados(entradas, rec) ==
    IF rec
    THEN {e.rel : e \in {x \in entradas : x.tipo = "file" /\ EhHeic(Last(x.rel))}}
    ELSE {<<n>> : n \in {m \in NomesDaRaiz(entradas) : EhHeic(m)}}

\* the orders in which the paths can be yielded: the order of a directory
\* listing is the file system's; os.walk is top-down, the root's files first
Ordens(S, rec) ==
    {f \in [1..Cardinality(S) -> S] :
        /\ \A i, j \in 1..Cardinality(S) : i # j => f[i] # f[j]
        /\ rec => \A i, j \in 1..Cardinality(S) : i < j => Len(f[i]) <= Len(f[j])}

-----------------------------------------------------------------------------
(* The inputs *)

D == <<"d">>
A_HEIC == <<"a", ".", "h", "e", "i", "c">>
A_HEIF == <<"a", ".", "H", "E", "I", "F">>
C_HEIF == <<"c", ".", "h", "e", "i", "f">>
B_TXT == <<"b", ".", "t", "x", "t">>
S_HEIC == <<"s", ".", "h", "e", "i", "c">>
A_JPG == <<"a", ".", "j", "p", "g">>
GIF == <<"g", "i", "f">>

\* the entries a source tree is drawn from; S_HEIC is a directory
Universo ==
    {[rel |-> <<A_HEIC>>, tipo |-> "file"], [rel |-> <<A_HEIF>>, tipo |-> "file"],
     [rel |-> <<B_TXT>>, tipo |-> "file"], [rel |-> <<DOT_HEIC>>, tipo |-> "file"],
     [rel |-> <<D, A_HEIC>>, tipo |-> "file"], [rel |-> <<D, C_HEIF>>, tipo |-> "file"],
     [rel |-> <<S_HEIC>>, tipo |-> "dir"]}

Arvores == {S \in SUBSET Universo : Cardinality(S) <= MaxEntradas}

Formatos == {JPEG, <<"P", "N", "G">>, GIF}
Qualidades == {0, 95}

\* the files the destination may hold before the call
Preexistentes == SUBSET {<<A_JPG>>, <<D>>}

SemResultado == [tipo |-> "nenhum", exc |-> "", valor |-> <<0, 0>>]

Init ==
    /\ entrada \in {"main", "api"}
    /\ args \in [formato : Formatos, qualidade : Qualidades,
                 recursivo : BOOLEAN, overwrite : BOOLEAN, threads : {0, 1}]
    /\ args.formato # JPEG => args.qualidade = 95
    /\ \E isdir \in BOOLEAN, S \in Arvores :
         /\ ~isdir => S = {}
         /\ origem = [isdir |-> isdir, entradas |-> S]
    /\ destRaiz \in {"ausente", "dir", "ficheiro"}
    /\ destDirs = {}
    /\ \E P \in Preexistentes :
         /\ destRaiz # "dir" => P = {}
         /\ destFicheiros = [p \in P |-> [estado |-> "antigo", de |-> <<>>]]
    /\ pc = IF entrada = "main" THEN "main" ELSE "inicio"
    /\ formato = args.formato
    /\ threads = args.threads
    /\ ficheiros = <<>>
    /\ idx = 1
    /\ tarefas = <<>>
    /\ convertidos = 0
    /\ erros = 0
    /\ resultado = SemResultado
    /\ codigo_saida = -1
    /\ abertos = {}
    /\ escritos = {}
    /\ decisoes = <<>>
    /\ execucao = 1
    /\ anterior = <<0, 0>>

-----------------------------------------------------------------------------
(* converter_heic, the calling thread *)

Max(a, b) == IF a >= b THEN a ELSE b
Min(a, b) == IF a <= b THEN a ELSE b

\* os.cpu_count(): 0 stands for None
CpuCounts == {64}

\* lines 132-133
Trabalhadores(th, cpu) ==
    IF th <= 0 THEN Max(1, Min(32, IF cpu = 0 THEN 2 ELSE cpu)) ELSE th

\* the validation without the test of formato
ValidarSoOrigem(isdir, fmt) == IF ~isdir THEN "FileNotFoundError" ELSE "ok"

\* lines 100-105: the exception the validation raises, "ok" if none
Validar(isdir, fmt) ==
    IF ~isdir THEN "FileNotFoundError"
    ELSE IF Lower(fmt) \notin {JPEG, PNG} THEN "ValueError"
    ELSE "ok"

\* the loop without the test of line 145: nothing is skipped
IgnorarNunca(ow, existe) == FALSE

\* line 145: whether the file is skipped
Ignorar(ow, existe) == ~ow /\ existe

\* the except branch without its increment
ContarSemErros(c, e, ok) == IF ok THEN <<c + 1, e>> ELSE <<c, e>>

\* lines 165 and 167: the counters after a future that succeeded (ok) or not
Contar(c, e, ok) == IF ok THEN <<c + 1, e>> ELSE <<c, e + 1>>

Excecao(nome) == [tipo |-> "excecao", exc |-> nome, valor |-> <<0, 0>>]
Retorno(c, e) == [tipo |-> "retorno", exc |-> "", valor |-> <<c, e>>]

Terminada(t) == t.estado \in {"ok", "falha"}

\* lines 100-140: validation, creation of the destination root, enumeration,
\* resolution of the number of threads
Preparar ==
    /\ pc = "inicio"
    /\ UNCHANGED <<entrada, args, origem, destDirs, destFicheiros, idx, tarefas,
                   convertidos, erros, codigo_saida, abertos, escritos, decisoes,
                   execucao, anterior>>
    /\ IF Validar(origem.isdir, args.formato) # "ok"
       THEN /\ resultado' = Excecao(Validar(origem.isdir, args.formato))
            /\ pc' = "fim"
            /\ formato' = IF origem.isdir THEN Lower(args.formato) ELSE formato
            /\ UNCHANGED <<destRaiz, threads, ficheiros>>
       ELSE /\ formato' = Lower(args.formato)
            /\ IF destRaiz = "ficheiro"
               THEN /\ resultado' = Excecao("FileExistsError")
                    /\ pc' = "fim"
                    /\ UNCHANGED <<destRaiz, threads, ficheiros>>
               ELSE /\ destRaiz' = "dir"
                    /\ \E f \in Ordens(Listados(origem.entradas, args.recursivo),
                                       args.recursivo) :
                          ficheiros' = f
                    /\ IF Listados(origem.entradas, args.recursivo) = {}
                       THEN /\ resultado' = Retorno(0, 0)
                            /\ pc' = "fim"
                            /\ UNCHANGED threads
                       ELSE /\ \E cpu \in CpuCounts :
                                  threads' = Trabalhadores(args.threads, cpu)
                            /\ pc' = "loop"
                            /\ UNCHANGED resultado

NovaTarefa(rel, saida) ==
    [rel |-> rel, saida |-> saida, estado |-> "pendente", contado |-> FALSE,
     execs |-> 0, erro |-> ""]

\* lines 143-160, one iteration: destino_para, the skip test, the submission
Submeter ==
    /\ pc = "loop"
    /\ idx <= Len(ficheiros)
    /\ LET rel == ficheiros[idx]
           saida == DestinoRel(rel, formato)
       IN  IF MakedirsFalha(destFicheiros, Front(saida))
           THEN /\ destDirs' = Makedirs(destFicheiros, destDirs, Front(saida))
                /\ pc' = "abortar"
                /\ UNCHANGED <<idx, tarefas, decisoes>>
           ELSE /\ destDirs' = Makedirs(destFicheiros, destDirs, Front(saida))
                /\ idx' = idx + 1
                /\ pc' = IF idx' > Len(ficheiros) THEN "recolha" ELSE "loop"
                /\ LET existia == Existe(destFicheiros, destDirs', saida)
                       ignora == Ignorar(args.overwrite, existia)
                   IN  /\ decisoes' = Append(decisoes,
                             [rel |-> rel, existia |-> existia, submetida |-> ~ignora])
                       /\ tarefas' = IF ignora THEN tarefas
                                     ELSE Append(tarefas, NovaTarefa(rel, saida))
    /\ UNCHANGED <<entrada, args, origem, destRaiz, destFicheiros, formato, threads,
                   ficheiros, convertidos, erros, resultado, codigo_saida, abertos,
                   escritos, execucao, anterior>>

\* lines 162-168, one iteration: as_completed hands over a finished future
Recolher ==
    /\ pc = "recolha"
    /\ \E t \in 1..Len(tarefas) :
         /\ Terminada(tarefas[t])
         /\ ~tarefas[t].contado
         /\ tarefas' = [tarefas EXCEPT ![t].contado = TRUE]
         /\ convertidos' = Contar(convertidos, erros, tarefas[t].estado = "ok")[1]
         /\ erros' = Contar(convertidos, erros, tarefas[t].estado = "ok")[2]
    /\ UNCHANGED <<entrada, args, origem, destRaiz, destDirs, destFicheiros, pc,
                   formato, threads, ficheiros, idx, resultado, codigo_saida,
                   abertos, escritos, decisoes, execucao, anterior>>

\* lines 170-173: the loop of line 162 is over, the pool is shut down
Retornar ==
    /\ pc = "recolha"
    /\ \A t \in 1..Len(tarefas) : tarefas[t].contado
    /\ resultado' = Retorno(convertidos, erros)
    /\ pc' = "fim"
    /\ UNCHANGED <<entrada, args, origem, destRaiz, destDirs, destFicheiros,
                   formato, threads, ficheiros, idx, tarefas, convertidos, erros,
                   codigo_saida, abertos, escritos, decisoes, execucao, anterior>>

\* line 142: an exception of destino_para leaves the with block; the
\* executor's shutdown waits for the submitted tasks, then it propagates
Propagar ==
    /\ pc = "abortar"
    /\ \A t \in 1..Len(tarefas) : Terminada(tarefas[t])
    /\ resultado' = Excecao("OSError")
    /\ pc' = "fim"
    /\ UNCHANGED <<entrada, args, origem, destRaiz, destDirs, destFicheiros,
                   formato, threads, ficheiros, idx, tarefas, convertidos, erros,
                   codigo_saida, abertos, escritos, decisoes, execucao, anterior>>

-----------------------------------------------------------------------------
(* _salvar_imagem, run by the workers of the pool *)

Ocupados == {t \in 1..Len(tarefas) : tarefas[t].estado = "a_gravar"}

\* Image.open always fails on a directory, which the non-recursive listing
\* lets through
EhDiretoria(rel) == \E e \in origem.entradas : e.rel = rel /\ e.tipo = "dir"

Parcial(rel) == [estado |-> "parcial", de |-> rel]
Completo(rel) == [estado |-> "completo", de |-> rel]
Antigo == [estado |-> "antigo", de |-> <<>>]

\* lines 47-79 up to the call of save: a free worker takes the oldest queued
\* task and opens its input (Image.open fails on a directory and may fail on
\* a file: corrupt, unreadable); then the branch on formato, where save opens
\* the output for writing
Iniciar(t) ==
    /\ tarefas[t].estado = "pendente"
    /\ \A u \in 1..(t - 1) : tarefas[u].estado # "pendente"
    /\ Cardinality(Ocupados) < threads
    /\ abertos' = abertos \cup {tarefas[t].rel}
    /\ \E abre \in IF EhDiretoria(tarefas[t].rel) THEN {FALSE} ELSE BOOLEAN :
         IF ~abre
         THEN /\ tarefas' = [tarefas EXCEPT ![t].execs = @ + 1,
                                            ![t].estado = "falha",
                                            ![t].erro = "DecodeError"]
              /\ UNCHANGED <<destFicheiros, escritos>>
         ELSE IF formato \in {JPEG, PNG}
         THEN /\ tarefas' = [tarefas EXCEPT ![t].execs = @ + 1,
                                            ![t].estado = "a_gravar"]
              /\ destFicheiros' =
                    (tarefas[t].saida :> Parcial(tarefas[t].rel)) @@ destFicheiros
              /\ escritos' = escritos \cup
                    {[saida |-> tarefas[t].saida, rel |-> tarefas[t].rel]}
         ELSE /\ tarefas' = [tarefas EXCEPT ![t].execs = @ + 1,
                                            ![t].estado = "falha",
                                            ![t].erro = "ValueError"]
              /\ UNCHANGED <<destFicheiros, escritos>>
    /\ UNCHANGED <<entrada, args, origem, destRaiz, destDirs, pc, formato, threads,
                   ficheiros, idx, convertidos, erros, resultado, codigo_saida,
                   decisoes, execucao, anterior>>

\* lines 68 and 76: save ends; the encoder or the write may fail, and a
\* failed save leaves the partial output behind or removes it
Concluir(t) ==
    /\ tarefas[t].estado = "a_gravar"
    /\ \/ /\ tarefas' = [tarefas EXCEPT ![t].estado = "ok"]
          /\ destFicheiros' =
                (tarefas[t].saida :> Completo(tarefas[t].rel)) @@ destFicheiros
       \/ /\ tarefas' = [tarefas EXCEPT ![t].estado = "falha",
                                        ![t].erro = "EncodeError"]
          /\ \/ UNCHANGED destFicheiros
             \/ /\ tarefas[t].saida \in DOMAIN destFicheiros
                /\ destFicheiros' =
                      [p \in DOMAIN destFicheiros \ {tarefas[t].saida} |->
                          destFicheiros[p]]
    /\ UNCHANGED <<entrada, args, origem, destRaiz, destDirs, pc, formato, threads,
                   ficheiros, idx, convertidos, erros, resultado, codigo_saida,
                   abertos, escritos, decisoes, execucao, anterior>>

-----------------------------------------------------------------------------
(* main and a second call *)

\* line 184: the formats argparse accepts
choices == {JPEG, PNG}

\* line 203: _parse_args; argparse ends the process with status 2 on a
\* value outside choices
MainArgs ==
    /\ pc = "main"
    /\ IF args.formato \in choices
       THEN pc' = "inicio" /\ UNCHANGED codigo_saida
       ELSE pc' = "saiu" /\ codigo_saida' = 2
    /\ UNCHANGED <<entrada, args, origem, destRaiz, destDirs, destFicheiros,
                   formato, threads, ficheiros, idx, tarefas, convertidos, erros,
                   resultado, abertos, escritos, decisoes, execucao, anterior>>

\* main without sys.exit(1)
SaidaZero(res) == 0

\* lines 204-220: the exit status of main after converter_heic ended
Saida(res) == IF res.tipo = "excecao" THEN 1 ELSE 0

MainFim ==
    /\ entrada = "main"
    /\ pc = "fim"
    /\ codigo_saida' = Saida(resultado)
    /\ pc' = "saiu"
    /\ UNCHANGED <<entrada, args, origem, destRaiz, destDirs, destFicheiros,
                   formato, threads, ficheiros, idx, tarefas, convertidos, erros,
                   resultado, abertos, escritos, decisoes, execucao, anterior>>

\* the caller runs the batch again without overwrite: converter_heic is
\* called with the same arguments on the file system the previous call left
OutraVez ==
    /\ entrada = "api"
    /\ ~args.overwrite
    /\ pc = "fim"
    /\ resultado.tipo = "retorno"
    /\ execucao < MaxExecucoes
    /\ execucao' = execucao + 1
    /\ anterior' = resultado.valor
    /\ pc' = "inicio"
    /\ formato' = args.formato
    /\ threads' = args.threads
    /\ ficheiros' = <<>>
    /\ idx' = 1
    /\ tarefas' = <<>>
    /\ convertidos' = 0
    /\ erros' = 0
    /\ resultado' = SemResultado
    /\ abertos' = {}
    /\ escritos' = {}
    /\ decisoes' = <<>>
    /\ UNCHANGED <<entrada, args, origem, destRaiz, destDirs, destFicheiros,
                   codigo_saida>>

Next ==
    \/ Preparar
    \/ Submeter
    \/ Recolher
    \/ Retornar
    \/ Propagar
    \/ \E t \in 1..Len(tarefas) : Iniciar(t)
    \/ \E t \in 1..Len(tarefas) : Concluir(t)
    \/ MainArgs
    \/ MainFim
    \/ OutraVez

Spec == Init /\ [][Next]_vars

-----------------------------------------------------------------------------
(* Vocabulary of the properties *)

\* converter_heic has ended, by a return or by an exception
Terminou == resultado.tipo # "nenhum"

\* the arguments pass the validation of lines 100-105
ArgsValidos == origem.isdir /\ Lower(args.formato) \in {JPEG, PNG}

\* the call got as far as the enumeration of line 125
Enumerou == ArgsValidos /\ destRaiz = "dir" /\ pc \notin {"main", "inicio"}

\* the files the loop of line 143 skipped
Ignorados == {decisoes[i].rel : i \in {j \in 1..Len(decisoes) : ~decisoes[j].submetida}}
Submetidos == {tarefas[t].rel : t \in 1..Len(tarefas)}

Sucessos == {t \in 1..Len(tarefas) : tarefas[t].estado = "ok"}
Falhas == {t \in 1..Len(tarefas) : tarefas[t].estado = "falha"}

\* a name with a non-empty stem and the suffix .heic or .heif in any case
NomeHeic(n) ==
    /\ Len(n) >= 6
    /\ Lower(SubSeq(n, Len(n) - 4, Len(n))) \in {DOT_HEIC, DOT_HEIF}

\* the source files the batch is meant to convert
Esperados ==
    {e.rel : e \in {x \in origem.entradas :
        /\ x.tipo = "file"
        /\ NomeHeic(Last(x.rel))
        /\ (args.recursivo \/ Len(x.rel) = 1)}}

\* the output path the batch is meant to give a source file
SaidaEsperada(rel) ==
    Front(rel) \o <<SubSeq(Last(rel), 1, Len(Last(rel)) - 5) \o
                    (IF Lower(args.formato) = JPEG THEN DOT_JPG ELSE DOT_PNG)>>

-----------------------------------------------------------------------------
(* C1 *)

\* C1: once the validation has passed and the files are enumerated, a failure
\* on one file never aborts the batch: converter_heic returns a pair, and every
\* enumerated file that was not skipped has a task that ran to completion.
C1_FalhaNaoAborta ==
    (Enumerou /\ Terminou) =>
        /\ resultado.tipo = "retorno"
        /\ \A i \in 1..Len(ficheiros) :
              \/ ficheiros[i] \in Ignorados
              \/ \E t \in 1..Len(tarefas) :
                    tarefas[t].rel = ficheiros[i] /\ Terminada(tarefas[t])

-----------------------------------------------------------------------------
(* C2 *)

\* C2: converter_heic returns its tallies only after every submitted task has
\* completed; a task is executed exactly once, never retried; the returned
\* pair is (number of tasks that succeeded, number of tasks that failed),
\* whatever the order of completion, so its sum is the number of tasks.
C2_Tallies ==
    /\ \A t \in 1..Len(tarefas) :
          /\ tarefas[t].execs <= 1
          /\ tarefas[t].estado # "pendente" => tarefas[t].execs = 1
    /\ resultado.tipo = "retorno" =>
          /\ \A t \in 1..Len(tarefas) : Terminada(tarefas[t]) /\ tarefas[t].execs = 1
          /\ resultado.valor = <<Cardinality(Sucessos), Cardinality(Falhas)>>
          /\ resultado.valor[1] + resultado.valor[2] = Len(tarefas)

\* two tasks, one that failed and one that succeeded, and the call returned
C2_Witness ==
    /\ resultado.tipo = "retorno"
    /\ Len(tarefas) = 2
    /\ tarefas[1].estado = "falha"
    /\ tarefas[2].estado = "ok"
    /\ resultado.valor = <<1, 1>>

-----------------------------------------------------------------------------
(* C3 *)

\* the file at path p is written in this step
Escrita(p) ==
    /\ p \in DOMAIN destFicheiros'
    /\ p \in DOMAIN destFicheiros => destFicheiros'[p] # destFicheiros[p]

\* C3, the decision: a file is submitted iff overwrite is true or its output
\* path did not exist when it was checked; a skipped file has no task, is
\* never opened and counts in neither counter
C3_Decisao ==
    /\ \A i \in 1..Len(decisoes) :
          decisoes[i].submetida <=> (args.overwrite \/ ~decisoes[i].existia)
    /\ \A r \in Ignorados : r \notin Submetidos /\ r \notin abertos
    /\ convertidos + erros =
          Cardinality({t \in 1..Len(tarefas) : tarefas[t].contado})

\* C3, the output: once a file is skipped, the output that existed for it is
\* never written
C3_SaidaIntacta ==
    \A r \in Ignorados : ~Escrita(DestinoRel(r, formato))

\* C3: for each enumerated file a task is submitted iff overwrite is true or
\* the output path does not exist when checked; a file skipped because
\* overwrite is false and its output exists is never opened, its existing
\* output is never written, and it changes neither counter.
C3_Skip == [](C3_Decisao) /\ [][C3_SaidaIntacta]_vars

-----------------------------------------------------------------------------
(* C4 *)

-----------------------------------------------------------------------------
(* C5 *)

\* the exception the rejected arguments are meant to raise
ExcecaoEsperada == IF ~origem.isdir THEN "FileNotFoundError" ELSE "ValueError"

\* nothing of the batch has happened
NadaFeito ==
    /\ ficheiros = <<>>
    /\ tarefas = <<>>
    /\ decisoes = <<>>
    /\ abertos = {}
    /\ escritos = {}

\* C5: when the source root is no directory, or the format, compared without
\* case, is neither jpeg nor png, converter_heic fails with FileNotFoundError,
\* respectively ValueError, before any work: the destination root is not
\* created, nothing is enumerated, no directory is created, no task is
\* submitted and the file system stays as it was; the format is never
\* rejected per file, inside a task.
C5_FalhaAntesDoTrabalho ==
    /\ [](~ArgsValidos =>
            /\ NadaFeito
            /\ Terminou => resultado = Excecao(ExcecaoEsperada))
    /\ [](\A t \in 1..Len(tarefas) : tarefas[t].erro # "ValueError")
    /\ [][~ArgsValidos => UNCHANGED <<destRaiz, destDirs, destFicheiros>>]_vars

\* a call with format gif on a source directory that holds a HEIC file and
\* an absent destination: it ended with ValueError and nothing was created
C5_Witness ==
    /\ entrada = "api"
    /\ origem.isdir
    /\ args.formato = GIF
    /\ [rel |-> <<A_HEIC>>, tipo |-> "file"] \in origem.entradas
    /\ resultado = Excecao("ValueError")
    /\ destRaiz = "ausente"

-----------------------------------------------------------------------------
(* C6 *)

\* the output paths written in this call
SaidasEscritas == {e.saida : e \in escritos}

\* C6 as stated: after a run, the set of output files written is exactly the
\* set of the matching source files that were not skipped, each mapped to its
\* output path
C6_SaidasExatas ==
    resultado.tipo = "retorno" =>
        SaidasEscritas = {SaidaEsperada(r) : r \in Esperados \ Ignorados}

\* C6, amended: every output written is the mapped path of a matching source
\* file that was not skipped (nothing is written for any other entry), and
\* after a run every matching source file was either skipped or given a task,
\* and has its mapped output written if its task succeeded; a file whose
\* conversion failed may have no output.
C6_SaidasDosConvertidos ==
    LET esperados == Esperados
        ignorados == Ignorados
    IN  /\ \A e \in escritos :
              /\ e.rel \in esperados \ ignorados
              /\ e.saida = SaidaEsperada(e.rel)
        /\ resultado.tipo = "retorno" =>
              /\ \A r \in esperados : r \in ignorados \/ r \in Submetidos
              /\ \A t \in Sucessos :
                    /\ tarefas[t].rel \in esperados
                    /\ [saida |-> SaidaEsperada(tarefas[t].rel),
                        rel |-> tarefas[t].rel] \in escritos

\* a recursive run over d/a.heic and b.txt: d/a.jpg was written from d/a.heic
\* and nothing else
C6_Witness ==
    /\ resultado.tipo = "retorno"
    /\ args.recursivo
    /\ args.formato = JPEG
    /\ origem.entradas = {[rel |-> <<D, A_HEIC>>, tipo |-> "file"],
                          [rel |-> <<B_TXT>>, tipo |-> "file"]}
    /\ escritos = {[saida |-> <<D, A_JPG>>, rel |-> <<D, A_HEIC>>]}
    /\ resultado.valor = <<1, 0>>

-----------------------------------------------------------------------------
(* C7 *)

\* C7: a call with format jpeg and a quality outside 1..100 is a configuration
\* error surfaced before any file is touched: it fails without opening an
\* input file and without writing an output file.
C7_QualidadeRejeitada ==
    (ArgsValidos /\ Lower(args.formato) = JPEG /\ args.qualidade \notin 1..100) =>
        /\ abertos = {}
        /\ escritos = {}
        /\ resultado.tipo # "retorno"

-----------------------------------------------------------------------------
(* C8 *)

\* C8: main ends with a non-zero exit status whenever converter_heic fails
\* with a top-level failure (source directory missing, unsupported format),
\* and ends normally whenever the batch completes, errors counted or not.
C8_EstadoDeSaida ==
    (entrada = "main" /\ pc = "saiu") =>
        /\ ~ArgsValidos => codigo_saida \notin {0, -1}
        /\ resultado.tipo = "excecao" => codigo_saida \notin {0, -1}
        /\ resultado.tipo = "retorno" => codigo_saida = 0

\* main ended normally after a batch that counted one error
C8_Witness ==
    /\ entrada = "main"
    /\ pc = "saiu"
    /\ resultado.tipo = "retorno"
    /\ resultado.valor[2] = 1
    /\ codigo_saida = 0

-----------------------------------------------------------------------------
(* C9 *)

Iniciadas == {t \in 1..Len(tarefas) : tarefas[t].estado # "pendente"}

\* C9 as stated: no task begins executing until the output path of every
\* enumerated file is computed, its directories created and its skip
\* decision taken
C9_TudoAntesDoParalelo ==
    Iniciadas # {} => Len(decisoes) = Len(ficheiros)

\* C9, amended: a task begins executing only after the full list of files is
\* materialised and after its own output path is computed, its own output
\* directory created and its own skip decision taken; the paths, directories
\* and decisions of the files later in the list may come while earlier tasks
\* are already running.
C9_ProprioAntesDeIniciar ==
    /\ Iniciadas # {} =>
          /\ Enumerou
          /\ \A r \in Esperados : \E i \in 1..Len(ficheiros) : ficheiros[i] = r
    /\ \A t \in Iniciadas :
          /\ tarefas[t].saida = DestinoRel(tarefas[t].rel, formato)
          /\ \A p \in Prefixos(Front(tarefas[t].saida)) : p \in destDirs
          /\ \E i \in 1..Len(decisoes) :
                decisoes[i].rel = tarefas[t].rel /\ decisoes[i].submetida

\* the task of d/a.heic is running while the loop has not yet reached the
\* second file of d
C9_Witness ==
    /\ pc = "loop"
    /\ Len(ficheiros) = 2
    /\ Len(decisoes) = 1
    /\ Len(tarefas) = 1
    /\ tarefas[1].estado = "a_gravar"
    /\ Len(tarefas[1].saida) = 2

-----------------------------------------------------------------------------
(* C10 *)

\* C10: no two submitted tasks have the same output path, no two workers
\* write the same output file at the same time, and each written output
\* comes from one input file only.
C10_SaidasDistintas ==
    /\ \A t, u \in 1..Len(tarefas) : t # u => tarefas[t].saida # tarefas[u].saida
    /\ \A e, f \in escritos : e.saida = f.saida => e.rel = f.rel

====
